---- MODULE Spec2Model ----
(***************************************************************************)
(* A model of the Bestia vault (src/vault.py): mint/redeem accounting,     *)
(* the asset registry, rebalancing of excess cash into assets and the      *)
(* protocol-driven liquidation of assets back into cash.                   *)
(*                                                                         *)
(* Numbers.  The vault computes with decimal.Decimal in the default        *)
(* context: 28 significant digits, ROUND_HALF_EVEN.  Every value the code  *)
(* holds is a rational with a small denominator (the value that exact      *)
(* arithmetic would give) plus what the roundings made so far have added,  *)
(* a small rational multiple of 10^-27.  A Decimal is modelled by that     *)
(* pair, a record [n, d, un, ud] of value n/d + (un/ud) * 10^-27, both     *)
(* fractions in lowest terms.  Each arithmetic operation computes the      *)
(* exact result on the pair and rounds it to 28 significant digits as the  *)
(* context does; the digits of n/d beyond the 28th are found by modular    *)
(* arithmetic, so that no number larger than a machine integer is needed.  *)
(* Two values compare by their exact parts and, when these are equal, by   *)
(* their dusts: two different exact parts differ by far more than any      *)
(* dust.                                                                   *)
(***************************************************************************)
EXTENDS Integers, Sequences, FiniteSets, TLC

VARIABLES
    optimal_cash_threshold,        \* Vault.optimal_cash_threshold
    liquidation_trigger_threshold, \* Vault.liquidation_trigger_threshold
    window,                        \* Vault.window
    cash,                          \* Vault.cash
    token_supply,                  \* Vault.token_supply
    assets,                        \* Vault.assets: dict name -> holdings
    asset_liquidity_value,         \* Vault.asset_liquidity_value: dict name -> priority
    prices,                        \* Vault.prices: dict name -> price
    thresholds,                    \* Vault.thresholds: dict name -> threshold
    price_volatility,              \* Vault.price_volatility: dict name -> deque of observations
    deposit_requests,              \* Vault.deposit_requests: dict time -> amount
    withdrawal_requests,           \* Vault.withdrawal_requests: dict time -> amount
    now,                           \* the reading time.time() gives at this moment
    last,                          \* the most recent call: operation, arguments, outcome
    calls,                         \* number of calls made so far
    trace                          \* names of the calls made so far (scenario runs only)

vars == <<optimal_cash_threshold, liquidation_trigger_threshold, window, cash,
          token_supply, assets, asset_liquidity_value, prices, thresholds,
          price_volatility, deposit_requests, withdrawal_requests, now, last,
          calls, trace>>

config == <<optimal_cash_threshold, liquidation_trigger_threshold, window>>

----------------------------------------------------------------------------
(* Rationals: records [n |-> numerator, d |-> denominator].                *)

Abs(x) == IF x < 0 THEN -x ELSE x

RECURSIVE GCD(_, _)
GCD(a, b) == IF b = 0 THEN a ELSE GCD(b, a % b)

LCM(a, b) == (a \div GCD(a, b)) * b

\* The rational n/d in lowest terms, sign carried by the numerator (d # 0).
Rat(n, d) ==
    LET g == GCD(Abs(n), Abs(d))
        s == IF d < 0 THEN -1 ELSE 1
    IN  [n |-> s * (n \div g), d |-> s * (d \div g)]

RatAdd(x, y) ==
    LET l == LCM(x.d, y.d)
    IN  Rat(x.n * (l \div x.d) + y.n * (l \div y.d), l)

RatNeg(x) == [n |-> -x.n, d |-> x.d]

RatSub(x, y) == RatAdd(x, RatNeg(y))

RatMul(x, y) ==
    LET g1 == GCD(Abs(x.n), y.d)
        g2 == GCD(Abs(y.n), x.d)
    IN  Rat((x.n \div g1) * (y.n \div g2), (x.d \div g2) * (y.d \div g1))

RatDiv(x, y) == RatMul(x, Rat(y.d, y.n))

RatLt(x, y) ==
    LET l == LCM(x.d, y.d)
    IN  x.n * (l \div x.d) < y.n * (l \div y.d)

RECURSIVE TenPower(_)
TenPower(j) == IF j = 0 THEN 1 ELSE 10 * TenPower(j - 1)

\* x * 10^j
Scale10(x, j) ==
    IF j >= 0 THEN RatMul(x, Rat(TenPower(j), 1)) ELSE RatMul(x, Rat(1, TenPower(-j)))

\* floor(log10(a / b)) for a > 0, b > 0
RECURSIVE Exponent10(_, _)
Exponent10(a, b) ==
    IF a >= 10 * b THEN Exponent10(a, 10 * b) + 1
    ELSE IF a < b THEN Exponent10(10 * a, b) - 1
    ELSE 0

RECURSIVE IsPowerOfTen(_)
IsPowerOfTen(a) == a = 1 \/ (a > 1 /\ a % 10 = 0 /\ IsPowerOfTen(a \div 10))

\* (a * 10^m) mod M, without computing a * 10^m
RECURSIVE TimesTenPowerMod(_, _, _)
TimesTenPowerMod(a, m, M) ==
    IF m = 0 THEN a % M ELSE TimesTenPowerMod((a % M) * 10, m - 1, M)

----------------------------------------------------------------------------
(* Decimal values.                                                         *)

Precision == 28     \* decimal.getcontext().prec, the default context

\* The Decimal of value exact + dust * 10^-(Precision - 1).
Make(exact, dust) == [n |-> exact.n, d |-> exact.d, un |-> dust.n, ud |-> dust.d]

Exact(x) == [n |-> x.n, d |-> x.d]

Dust(x) == [n |-> x.un, d |-> x.ud]

NoDust == Rat(0, 1)

\* A Decimal written in the source, e.g. Decimal('0.2') is Dec(1, 5).
Dec(n, d) == Make(Rat(n, d), NoDust)

Zero == Dec(0, 1)

\* The context's rounding of the value exact + dust * 10^-(Precision - 1)
\* to Precision significant digits, ROUND_HALF_EVEN.  With e the decimal
\* exponent of the leading digit, one unit in the last place is
\* 10^(e - (Precision - 1)); in these units the absolute value is q0 + g
\* with q0 the integer part of |exact| and g the rest; g is rounded to the
\* nearest integer, a tie going to the even q0 + g.  The steps, last first:

\* the rounded value: |exact| and its digits beyond the last place f0
\* replaced by rnd units.
Rounded(s, exact, e, f0, rnd) ==
    Make(exact, RatMul(Rat(s, 1), Scale10(RatSub(Rat(rnd, 1), f0), e)))

\* g = fl + fr with fl an integer and 0 <= fr < 1 goes to fl or to fl + 1;
\* odd0 tells whether q0 is odd.  (Each step hands its results to the next
\* one through one-element sets, so that they are computed once, before
\* the next step begins.)
RoundNearest(s, exact, e, f0, odd0, fl, fr) ==
    CHOOSE r \in {Rounded(s, exact, e, f0, rnd) :
                  rnd \in {IF (IF fr = Rat(1, 2) THEN odd0 # (fl % 2 = 1)
                               ELSE RatLt(Rat(1, 2), fr))
                           THEN fl + 1 ELSE fl}} : TRUE

RoundRest(s, exact, e, f0, odd0, g) ==
    CHOOSE r \in {RoundNearest(s, exact, e, f0, odd0, fl, RatSub(g, Rat(fl, 1))) :
                  fl \in {g.n \div g.d}} : TRUE

\* x is |exact| in units of the last place, modulo 2 * b: its remainder by
\* b gives the digits of |exact| beyond the last place, and x >= b says
\* that q0 is odd.
RoundDigits(s, b, exact, ks, e, x) ==
    CHOOSE r \in {RoundRest(s, exact, e, f0, x >= b, g) :
                  f0 \in {Rat(x % b, b)},
                  g \in {RatAdd(Rat(x % b, b), Scale10(ks, -e))}} : TRUE

RoundAt(s, a, b, exact, ks, e) ==
    CHOOSE r \in {RoundDigits(s, b, exact, ks, e, x) :
                  x \in {TimesTenPowerMod(a, Precision - 1 - e, 2 * b)}} : TRUE

\* e0 is the exponent of |exact| = a / b; just below a power of ten the
\* leading digit is one place lower.
RoundFrom(s, a, b, exact, ks, e0) ==
    CHOOSE r \in {RoundAt(s, a, b, exact, ks, e) :
                  e \in {IF ks.n < 0 /\ (IF b = 1 THEN IsPowerOfTen(a)
                                         ELSE a = 1 /\ IsPowerOfTen(b))
                         THEN e0 - 1 ELSE e0}} : TRUE

\* s is the sign of the value; ks is the dust of its absolute value.
RoundSigned(s, exact, dust) ==
    CHOOSE r \in {RoundFrom(s, Abs(exact.n), exact.d, exact, ks, e0) :
                  ks \in {RatMul(Rat(s, 1), dust)},
                  e0 \in {Exponent10(Abs(exact.n), exact.d)}} : TRUE

\* A value that is dust alone is a difference of two neighbouring Decimals
\* and is kept as it is.  A value with no dust whose denominator divides
\* 10^9 has at most 28 digits and is kept as it is.
Round(exact, dust) ==
    IF exact.n = 0 \/ (dust.n = 0 /\ 1000000000 % exact.d = 0)
    THEN Make(exact, dust)
    ELSE RoundSigned(IF exact.n < 0 THEN -1 ELSE 1, exact, dust)

DecAdd(x, y) ==
    Round(RatAdd(Exact(x), Exact(y)),
          IF x.un = 0 /\ y.un = 0 THEN NoDust ELSE RatAdd(Dust(x), Dust(y)))

DecNeg(x) == Make(RatNeg(Exact(x)), RatNeg(Dust(x)))

DecSub(x, y) == DecAdd(x, DecNeg(y))

\* The product of the two dusts is below every digit kept and is dropped.
DecMul(x, y) ==
    Round(RatMul(Exact(x), Exact(y)),
          IF x.un = 0 /\ y.un = 0 THEN NoDust
          ELSE RatAdd(RatMul(Exact(x), Dust(y)), RatMul(Exact(y), Dust(x))))

\* x / y for y # 0 (the code never divides by zero: see the guards before
\* each division).  A quotient of two dusts is their ratio.
DecDiv(x, y) ==
    IF x.n = 0 /\ y.n = 0
    THEN Round(RatDiv(Dust(x), Dust(y)), NoDust)
    ELSE LET q == RatDiv(Exact(x), Exact(y))
         IN  Round(q, IF x.un = 0 /\ y.un = 0 THEN NoDust
                      ELSE RatDiv(RatSub(Dust(x), RatMul(q, Dust(y))), Exact(y)))

DecLt(x, y) ==
    \/ RatLt(Exact(x), Exact(y))
    \/ x.n = y.n /\ x.d = y.d /\ RatLt(Dust(x), Dust(y))

DecLe(x, y) == ~DecLt(y, x)

\* abs(x - y)
Distance(x, y) == IF DecLt(x, y) THEN DecSub(y, x) ELSE DecSub(x, y)

----------------------------------------------------------------------------
(* Python dicts: insertion-ordered association lists.                      *)

Keys(d) == {d[i].k : i \in DOMAIN d}

Has(d, k) == k \in Keys(d)

Get(d, k) == d[CHOOSE i \in DOMAIN d : d[i].k = k].v

\* dict.get(k, default)
GetOr(d, k, default) == IF Has(d, k) THEN Get(d, k) ELSE default

\* d[k] = v: an existing key keeps its place, a new key goes last.
Put(d, k, v) ==
    IF Has(d, k)
    THEN [i \in DOMAIN d |-> IF d[i].k = k THEN [k |-> k, v |-> v] ELSE d[i]]
    ELSE Append(d, [k |-> k, v |-> v])

----------------------------------------------------------------------------
(* Inputs and bounds.                                                      *)

MaxCalls == 5           \* calls made in one run of Spec
MaxValidCalls == 7      \* calls made in one run of SpecValid
MaxScenarioCalls == 5   \* calls made in one run of SpecScenario
MaxTime == 3            \* readings of the clock are 0 .. MaxTime

One == Dec(1, 1)
Two == Dec(2, 1)

AssetNames == {"X", "Y"}

\* Constructor arguments: the module-level vault of vault.py (0.2, 0.05) and a
\* second pair of thresholds.
Configs ==
    { [opt |-> Dec(1, 5), trig |-> Dec(1, 20), window |-> Two],
      [opt |-> Dec(1, 2), trig |-> Dec(2, 5), window |-> Two] }

MintAmounts == {Dec(-10, 1), Zero, Dec(10, 1)}
RedeemAmounts == {Zero, Dec(2, 1), Dec(4, 1)}
Prices == {Zero, One, Two}
LiquidityValues == {One, Two}
Thresholds == {Dec(1, 2), Dec(101, 1)}

\* Arguments of add_supported_asset: X, and Y with a liquidity value below or
\* above that of X, at every price with a valid threshold; and one call with
\* a threshold above 100.
AddInput(name, value, price, threshold) ==
    [name |-> name, value |-> value, price |-> price, threshold |-> threshold]
AddInputs ==
    {AddInput("X", One, p, Dec(1, 2)) : p \in Prices}
        \cup {AddInput("Y", v, p, Dec(1, 2)) : v \in {Zero, Two}, p \in Prices}
        \cup {AddInput("Y", Two, One, Dec(101, 1))}

\* The inputs the interface asks for: amount > 0, price > 0.
PositiveMintAmounts == {a \in MintAmounts : DecLt(Zero, a)}
PositivePrices == {p \in Prices : DecLt(Zero, p)}

----------------------------------------------------------------------------
(* Constants of the code.                                                  *)

ThresholdLimit == Dec(100, 1)   \* Decimal(100)
DequeMaxLen == 1000             \* deque(maxlen=1000)

NoArgs == [asset |-> "", amount |-> Zero, value |-> Zero, price |-> Zero,
           threshold |-> Zero, inflow |-> FALSE]

\* What a call leaves in `last`: err is "none" or the failure; ret is <<>> for
\* None or an exception, <<v>> for a returned v; note is what the call
\* reports when self.debug is set: <<>> for a call that returns at once,
\* <<v>> for a rebalance past its early return ("Cash to rebalance: v"), and
\* <<v, sale, ...>> for a liquidate past its early return ("Need to raise:
\* v", then one "Liquidated ..." for every sale).
Outcome(op, args, err, ret, note) ==
    [op |-> op, args |-> args, err |-> err, ret |-> ret, note |-> note]

\* deque.append with maxlen: the oldest observation is dropped when full.
DequeAppend(q, x) ==
    IF Len(q) >= DequeMaxLen THEN Append(Tail(q), x) ELSE Append(q, x)

PriceObservation(timestamp, price) == [timestamp |-> timestamp, price |-> price]

----------------------------------------------------------------------------
(* Getters, as functions of the fields they read.                          *)

\* get_asset_value.  Both raises are unreachable for a key of `as`: every
\* path that adds a key to assets adds it to prices (add_supported_asset)
\* and no path removes a key.
get_asset_value(as, pr, asset) == DecMul(Get(pr, asset), Get(as, asset))

RECURSIVE SumValues(_, _, _)
SumValues(as, pr, i) ==
    IF i > Len(as) THEN Zero
    ELSE DecAdd(get_asset_value(as, pr, as[i].k), SumValues(as, pr, i + 1))

get_assets_value(as, pr) == SumValues(as, pr, 1)

get_total_value(as, pr, c) == DecAdd(get_assets_value(as, pr), c)

get_current_cash_threshold(as, pr, c) ==
    IF get_total_value(as, pr, c) = Zero THEN Zero
    ELSE DecDiv(c, get_total_value(as, pr, c))

is_liquidable(as, pr, c) ==
    DecLt(get_current_cash_threshold(as, pr, c), liquidation_trigger_threshold)

TotalValue == get_total_value(assets, prices, cash)
CashRatio == get_current_cash_threshold(assets, prices, cash)

----------------------------------------------------------------------------
(* Flows, volatility and the swing fee, read at the clock reading `now`.   *)

\* min_time = Decimal(time.time()) - self.window
min_time == DecSub(Dec(now, 1), window)

\* The check of get_inflow and get_outflow: "Invalid time window".
invalid_window == window = Zero \/ DecLt(min_time, Zero)

\* The loop of get_inflow and get_outflow over a log: the amounts whose key
\* is not before min_time, added up.
RECURSIVE SumSince(_, _)
SumSince(log, i) ==
    IF i > Len(log) THEN Zero
    ELSE DecAdd(IF DecLt(Dec(log[i].k, 1), min_time) THEN Zero ELSE log[i].v,
                SumSince(log, i + 1))

\* get_inflow and get_outflow where the window is valid.
get_inflow == DecDiv(SumSince(deposit_requests, 1), window)
get_outflow == DecDiv(SumSince(withdrawal_requests, 1), window)

\* relevant_prices of get_price_volatility: the prices of the observations
\* of q from the i-th on whose timestamp is not before min_time.
RECURSIVE relevant_prices(_, _)
relevant_prices(q, i) ==
    IF i > Len(q) THEN <<>>
    ELSE IF DecLe(min_time, Dec(q[i].timestamp, 1))
         THEN <<q[i].price>> \o relevant_prices(q, i + 1)
         ELSE relevant_prices(q, i + 1)

RECURSIVE SumSeq(_, _)
SumSeq(s, i) == IF i > Len(s) THEN Zero ELSE DecAdd(s[i], SumSeq(s, i + 1))

\* Decimal.sqrt of x >= 0, to three decimal places (exact when the root has
\* at most three): the largest r / 1000 whose square is at most x.
DecSqrt(x) ==
    LET v == (x.n * 1000 * 1000) \div x.d
        r == CHOOSE k \in 0..(v + 1) : k * k <= v /\ v < (k + 1) * (k + 1)
    IN  Dec(r, 1000)

\* get_price_volatility for an asset that has a price history.
get_price_volatility(asset) ==
    LET ps == relevant_prices(Get(price_volatility, asset), 1)
        n == Dec(Len(ps), 1)
        mean_price == DecDiv(SumSeq(ps, 1), n)
        sq == [i \in DOMAIN ps |->
                 DecMul(DecSub(ps[i], mean_price), DecSub(ps[i], mean_price))]
        variance == DecDiv(SumSeq(sq, 1), n)
    IN  IF Len(ps) < 2 THEN Zero ELSE DecSqrt(variance)

\* get_current_asset_threshold for an asset that has a threshold.
get_current_asset_threshold(asset) ==
    LET value == get_asset_value(assets, prices, asset)
        total == get_assets_value(assets, prices)
    IN  IF total = Zero \/ value = Zero THEN Zero
        ELSE Distance(Get(thresholds, asset), DecDiv(value, total))

\* math.exp(z) raises OverflowError ("math range error") when z is above
\* log(DBL_MAX) = 709.782712893...; no z of this model lies between 709.78
\* and 709.79.
ExpRange == Dec(70978, 100)

\* f_x = 1 / (1 + exp(z)) is computed in binary floating point and is not a
\* rational function of z.  The value lies in [0, 1/2] for z >= 0 and in
\* [1/2, 1] for z <= 0; the model takes both ends of the interval, and
\* final_fee, which is linear in f_x, lies between the two it computes.
f_x_ends(z) == IF DecLt(Zero, z) THEN {Zero, Dec(1, 2)} ELSE {Dec(1, 2), One}

\* max(0, min(1, final_fee))
final_fee_normalized(final_fee) ==
    IF DecLe(One, final_fee) THEN One
    ELSE IF DecLe(final_fee, Zero) THEN Zero
    ELSE final_fee

\* What swing_pricing(asset, inflow) may do: fail, or return a fee.  "Invalid
\* time window" is InvalidWindow, "Invalid asset" InvalidAsset; the lookup
\* self.price_volatility[asset] of an asset without history is KeyError.
swing_pricing_outcomes(asset, inflow) ==
    LET flow == IF inflow THEN get_inflow ELSE get_outflow
        price_vol == get_price_volatility(asset)
        threshold == get_current_asset_threshold(asset)
        a == Dec(1, 100)
        b == Dec(1, 20)
        c == Dec(1, 10)
        d == Dec(1, 50)
        x == DecMul(flow, DecAdd(One, DecMul(b, price_vol)))
        z == DecNeg(DecMul(c, DecSub(x, threshold)))
    IN  IF invalid_window THEN {[err |-> "InvalidWindow", ret |-> <<>>]}
        ELSE IF ~Has(price_volatility, asset) THEN {[err |-> "KeyError", ret |-> <<>>]}
        ELSE IF ~Has(thresholds, asset) THEN {[err |-> "InvalidAsset", ret |-> <<>>]}
        ELSE IF DecLt(ExpRange, z) THEN {[err |-> "OverflowError", ret |-> <<>>]}
        ELSE {[err |-> "none",
               ret |-> <<final_fee_normalized(
                           DecMul(DecMul(a, x), DecAdd(One, DecMul(d, f_x))))>>] :
                 f_x \in f_x_ends(z)}

----------------------------------------------------------------------------
(* Construction.                                                           *)

InitWith(cfgs) ==
    /\ \E c \in cfgs :
         /\ optimal_cash_threshold = c.opt
         /\ liquidation_trigger_threshold = c.trig
         /\ window = c.window
    /\ cash = Zero
    /\ token_supply = Zero
    /\ assets = <<>>
    /\ asset_liquidity_value = <<>>
    /\ prices = <<>>
    /\ thresholds = <<>>
    /\ price_volatility = <<>>
    /\ deposit_requests = <<>>
    /\ withdrawal_requests = <<>>
    /\ now = 0
    /\ last = Outcome("init", NoArgs, "none", <<>>, <<>>)
    /\ calls = 0
    /\ trace = <<>>

Init == InitWith(Configs)

----------------------------------------------------------------------------
(* Operations.  Each is the whole method; Called(..) records the call.     *)

Noted(op, args, err, ret, note) ==
    /\ calls' = calls + 1
    /\ last' = Outcome(op, args, err, ret, note)

Called(op, args, err, ret) == Noted(op, args, err, ret, <<>>)

registry == <<assets, asset_liquidity_value, prices, thresholds, price_volatility>>
ledger == <<cash, token_supply, deposit_requests, withdrawal_requests>>

\* mint that forgets to issue the tokens.
mint_without_issuance(amount) ==
    /\ cash' = DecAdd(cash, amount)
    /\ token_supply' = token_supply
    /\ deposit_requests' = Put(deposit_requests, now, amount)
    /\ Called("mint", [NoArgs EXCEPT !.amount = amount], "none", <<amount>>)
    /\ UNCHANGED <<config, registry, withdrawal_requests, now>>

\* mint: no check of the amount.
mint(amount) ==
    /\ cash' = DecAdd(cash, amount)
    /\ token_supply' = DecAdd(token_supply, amount)
    /\ deposit_requests' = Put(deposit_requests, now, amount)
    /\ Called("mint", [NoArgs EXCEPT !.amount = amount], "none", <<amount>>)
    /\ UNCHANGED <<config, registry, withdrawal_requests, now>>

\* The check of redeem with <= for <: the whole cash cannot be redeemed.
not_enough_cash_strict(amount) == DecLe(cash, amount)

\* The check of redeem.
not_enough_cash(amount) == DecLt(cash, amount)

\* redeem: "Not enough cash" is InsufficientCash.
redeem(amount) ==
    /\ IF not_enough_cash(amount)
       THEN /\ Called("redeem", [NoArgs EXCEPT !.amount = amount],
                      "InsufficientCash", <<>>)
            /\ UNCHANGED ledger
       ELSE /\ cash' = DecSub(cash, amount)
            /\ token_supply' = DecSub(token_supply, amount)
            /\ withdrawal_requests' = Put(withdrawal_requests, now, amount)
            /\ Called("redeem", [NoArgs EXCEPT !.amount = amount], "none",
                      <<amount>>)
            /\ UNCHANGED deposit_requests
    /\ UNCHANGED <<config, registry, now>>

\* The check of the threshold with the comparison turned round.
invalid_threshold_inverted(threshold) == DecLt(threshold, ThresholdLimit)

\* The check of the threshold in add_supported_asset and
\* change_asset_threshold.
invalid_threshold(threshold) == DecLt(ThresholdLimit, threshold)

\* add_supported_asset: "Name already present" is DuplicateAsset, "Invalid
\* threshold" is InvalidThreshold.
add_supported_asset(name, liquidity_value, price, threshold) ==
    LET args == [NoArgs EXCEPT !.asset = name, !.value = liquidity_value,
                               !.price = price, !.threshold = threshold]
    IN
    /\ IF Has(assets, name)
       THEN /\ Called("add_supported_asset", args, "DuplicateAsset", <<>>)
            /\ UNCHANGED registry
       ELSE IF invalid_threshold(threshold)
       THEN /\ Called("add_supported_asset", args, "InvalidThreshold", <<>>)
            /\ UNCHANGED registry
       ELSE /\ assets' = Put(assets, name, Zero)
            /\ asset_liquidity_value' = Put(asset_liquidity_value, name, liquidity_value)
            /\ price_volatility' =
                 Put(price_volatility, name,
                     DequeAppend(<<>>, PriceObservation(now, price)))
            /\ prices' = Put(prices, name, price)
            /\ thresholds' = Put(thresholds, name, threshold)
            /\ Called("add_supported_asset", args, "none", <<>>)
    /\ UNCHANGED <<config, ledger, now>>

\* set_asset_price: no check of the asset or of the price.
\* The observation appended to the history the asset has.
appended_history(asset, price) ==
    DequeAppend(GetOr(price_volatility, asset, <<>>), PriceObservation(now, price))

\* A new deque holding the one observation (lines 146-147).
fresh_history(asset, price) ==
    DequeAppend(<<>>, PriceObservation(now, price))

set_asset_price(asset, price) ==
    /\ price_volatility' = Put(price_volatility, asset, fresh_history(asset, price))
    /\ prices' = Put(prices, asset, price)
    /\ Called("set_asset_price", [NoArgs EXCEPT !.asset = asset, !.price = price],
              "none", <<>>)
    /\ UNCHANGED <<config, ledger, assets, asset_liquidity_value, thresholds, now>>

\* time.time() moves on between two calls.
Tick ==
    /\ now < MaxTime
    /\ now' = now + 1
    /\ UNCHANGED <<config, ledger, registry, last, calls, trace>>

\* change_asset_threshold: "Asset not present" is InvalidAsset.
change_asset_threshold(asset, threshold) ==
    LET args == [NoArgs EXCEPT !.asset = asset, !.threshold = threshold]
    IN
    /\ IF ~Has(assets, asset)
       THEN /\ Called("change_asset_threshold", args, "InvalidAsset", <<>>)
            /\ UNCHANGED thresholds
       ELSE IF invalid_threshold(threshold)
       THEN /\ Called("change_asset_threshold", args, "InvalidThreshold", <<>>)
            /\ UNCHANGED thresholds
       ELSE /\ thresholds' = Put(thresholds, asset, threshold)
            /\ Called("change_asset_threshold", args, "none", <<>>)
    /\ UNCHANGED <<config, ledger, assets, asset_liquidity_value, prices,
                   price_volatility, now>>

\* set_asset_liquidity_value: no check of the asset.
set_asset_liquidity_value(asset, value) ==
    /\ asset_liquidity_value' = Put(asset_liquidity_value, asset, value)
    /\ Called("set_asset_liquidity_value",
              [NoArgs EXCEPT !.asset = asset, !.value = value], "none", <<>>)
    /\ UNCHANGED <<config, ledger, assets, prices, thresholds, price_volatility, now>>

\* The loop of rebalance from the i-th key of assets on: the holdings it
\* leaves and "none", or "InvalidPrice" at the first asset whose price is 0
\* (the holdings of the assets before it are already increased).
\* The share of an asset taken as the whole of the excess cash.
cash_for_asset_undivided(excess_cash, n) == excess_cash

\* cash_for_asset = excess_cash / Decimal(self.assets.__len__())
cash_for_asset(excess_cash, n) == DecDiv(excess_cash, Dec(n, 1))

RECURSIVE rebalance_loop(_, _, _)
rebalance_loop(as, i, excess_cash) ==
    IF i > Len(as) THEN [assets |-> as, err |-> "none"]
    ELSE LET asset == as[i].k IN
         IF GetOr(prices, asset, Zero) = Zero
         THEN [assets |-> as, err |-> "InvalidPrice"]
         ELSE LET price_per_unit == Get(prices, asset)
                  quantity_to_buy ==
                      DecDiv(cash_for_asset(excess_cash, Len(as)), price_per_unit)
              IN  rebalance_loop(
                      Put(as, asset, DecAdd(Get(as, asset), quantity_to_buy)),
                      i + 1, excess_cash)

\* The early return of rebalance taken against the wrong threshold.
rebalance_not_needed_trigger(current_cash_ratio) ==
    DecLe(current_cash_ratio, liquidation_trigger_threshold)

\* The early return of rebalance.
rebalance_not_needed(current_cash_ratio) ==
    DecLe(current_cash_ratio, optimal_cash_threshold)

\* desired_cash computed from the wrong threshold.
desired_cash_for_trigger(total_value) ==
    DecMul(liquidation_trigger_threshold, total_value)

\* desired_cash of rebalance and of liquidate.
desired_cash_for(total_value) == DecMul(optimal_cash_threshold, total_value)

rebalance ==
    LET current_cash_ratio == get_current_cash_threshold(assets, prices, cash)
        total_value == get_total_value(assets, prices, cash)
        desired_cash == desired_cash_for(total_value)
        excess_cash == DecSub(cash, desired_cash)
        r == rebalance_loop(assets, 1, excess_cash)
    IN
    /\ IF rebalance_not_needed(current_cash_ratio)
       THEN /\ Called("rebalance", NoArgs, "none", <<>>)
            /\ UNCHANGED <<assets, cash>>
       ELSE /\ assets' = r.assets
            /\ cash' = IF r.err = "none" THEN DecSub(cash, excess_cash) ELSE cash
            /\ Noted("rebalance", NoArgs, r.err, <<>>, <<excess_cash>>)
    /\ UNCHANGED <<config, token_supply, deposit_requests, withdrawal_requests,
                   asset_liquidity_value, prices, thresholds, price_volatility, now>>

\* sorted(items, key = value): ascending, stable (equal values keep dict order).
RECURSIVE InsertByValue(_, _, _)
InsertByValue(s, e, i) ==
    IF i > Len(s) THEN Append(s, e)
    ELSE IF DecLt(e.v, s[i].v)
         THEN SubSeq(s, 1, i - 1) \o <<e>> \o SubSeq(s, i, Len(s))
         ELSE InsertByValue(s, e, i + 1)

RECURSIVE SortByValue(_, _)
SortByValue(d, i) ==
    IF i = 0 THEN <<>> ELSE InsertByValue(SortByValue(d, i - 1), d[i], 1)

sorted_assets == SortByValue(asset_liquidity_value, Len(asset_liquidity_value))

\* += for -= in the partial sale.
holdings_after_sale_added(holdings, quantity_to_sell) ==
    DecAdd(holdings, quantity_to_sell)

\* self.assets[asset] -= quantity_to_sell
holdings_after_sale(holdings, quantity_to_sell) == DecSub(holdings, quantity_to_sell)

\* The cash of a partial sale with a fee of one percent kept back.
actual_cash_raised_less_fee(quantity_to_sell, asset_price) ==
    DecMul(DecMul(quantity_to_sell, asset_price), Dec(99, 100))

\* actual_cash_raised = quantity_to_sell * asset_price
actual_cash_raised(quantity_to_sell, asset_price) ==
    DecMul(quantity_to_sell, asset_price)

\* The report of a sale: "Liquidated all of {asset}" or "Liquidated
\* {quantity} of {asset}".
Sale(asset, quantity, all) == [asset |-> asset, quantity |-> quantity, all |-> all]

\* The loop of liquidate from the i-th of the sorted assets on, with cash c
\* and holdings as: what it leaves, "none" or "InvalidPrice", and the sales
\* it reports, in order.
RECURSIVE liquidate_loop(_, _, _, _, _, _)
liquidate_loop(sorted, i, c, as, desired_cash, required_cash) ==
    LET done == [cash |-> c, assets |-> as, err |-> "none", sold |-> <<>>]
    IN
    IF i > Len(sorted) THEN done
    ELSE IF DecLe(required_cash, c) THEN done
    ELSE LET asset == sorted[i].k
             current_holdings == GetOr(as, asset, Zero)
             asset_price == GetOr(prices, asset, Zero)
             max_cash_obtainable == DecMul(current_holdings, asset_price)
             still_required_cash == DecSub(desired_cash, c)
             quantity_to_sell == DecDiv(still_required_cash, asset_price)
             all == liquidate_loop(sorted, i + 1, DecAdd(c, max_cash_obtainable),
                                   Put(as, asset, Zero), desired_cash, required_cash)
             part == liquidate_loop(
                         sorted, i + 1,
                         DecAdd(c, actual_cash_raised(quantity_to_sell, asset_price)),
                         Put(as, asset,
                             holdings_after_sale(Get(as, asset), quantity_to_sell)),
                         desired_cash, required_cash)
         IN  IF current_holdings = Zero
             THEN liquidate_loop(sorted, i + 1, c, as, desired_cash, required_cash)
             ELSE IF asset_price = Zero
             THEN [done EXCEPT !.err = "InvalidPrice"]
             ELSE IF DecLt(DecAdd(max_cash_obtainable, c), desired_cash)
             THEN [all EXCEPT !.sold = <<Sale(asset, current_holdings, TRUE)>> \o @]
             ELSE [part EXCEPT !.sold = <<Sale(asset, quantity_to_sell, FALSE)>> \o @]

liquidate ==
    LET total_value == get_total_value(assets, prices, cash)
        desired_cash == desired_cash_for(total_value)
        required_cash == DecSub(desired_cash, cash)
        r == liquidate_loop(sorted_assets, 1, cash, assets, desired_cash, required_cash)
    IN
    /\ IF ~is_liquidable(assets, prices, cash)
       THEN /\ Called("liquidate", NoArgs, "none", <<>>)
            /\ UNCHANGED <<assets, cash>>
       ELSE /\ assets' = r.assets
            /\ cash' = r.cash
            /\ Noted("liquidate", NoArgs, r.err, <<>>, <<required_cash>> \o r.sold)
    /\ UNCHANGED <<config, token_supply, deposit_requests, withdrawal_requests,
                   asset_liquidity_value, prices, thresholds, price_volatility, now>>

\* The outcome of liquidate_asset: "Asset not supported" is InvalidAsset,
\* "Invalid price" InvalidPrice, "Not enough asset amount" NotEnoughAsset,
\* "No need to liquidate asset, enough cash available" NoNeedToLiquidate.
\* Past the four checks the method calls self.swing_pricing(asset, amount,
\* False), three arguments for the two parameters of swing_pricing: Python
\* raises TypeError at the call, before the body of swing_pricing runs, and
\* user_part and protocol_part are never computed.
liquidate_asset_outcome(asset, amount) ==
    IF ~Has(assets, asset) THEN "InvalidAsset"
    ELSE IF ~Has(prices, asset) THEN "InvalidPrice"
    ELSE IF DecLt(Get(assets, asset), amount) THEN "NotEnoughAsset"
    ELSE IF DecLe(DecMul(amount, Get(prices, asset)), cash) THEN "NoNeedToLiquidate"
    ELSE "TypeError"

\* liquidate_asset that settles the sale once the checks are passed.
liquidate_asset_settling(asset, amount) ==
    LET err == liquidate_asset_outcome(asset, amount)
        sold == err = "TypeError"
    IN
    /\ assets' = IF sold THEN Put(assets, asset, DecSub(Get(assets, asset), amount))
                 ELSE assets
    /\ cash' = IF sold THEN DecAdd(cash, DecMul(amount, Get(prices, asset)))
               ELSE cash
    /\ Called("liquidate_asset", [NoArgs EXCEPT !.asset = asset, !.amount = amount],
              err, <<>>)
    /\ UNCHANGED <<config, token_supply, deposit_requests, withdrawal_requests,
                   asset_liquidity_value, prices, thresholds, price_volatility, now>>

\* liquidate_asset: it assigns no field of the vault on any path and never
\* returns a value.
liquidate_asset(asset, amount) ==
    /\ Called("liquidate_asset", [NoArgs EXCEPT !.asset = asset, !.amount = amount],
              liquidate_asset_outcome(asset, amount), <<>>)
    /\ UNCHANGED <<config, ledger, registry, now>>

\* swing_pricing: it reads the vault and assigns nothing.
swing_pricing(asset, inflow) ==
    /\ \E o \in swing_pricing_outcomes(asset, inflow) :
         Called("swing_pricing", [NoArgs EXCEPT !.asset = asset, !.inflow = inflow],
                o.err, o.ret)
    /\ UNCHANGED <<config, ledger, registry, now>>

----------------------------------------------------------------------------
(* Any caller: every operation with every input, valid or not.             *)

Mint ==
    /\ calls < MaxCalls
    /\ \E a \in MintAmounts : mint(a)
    /\ UNCHANGED trace
Redeem ==
    /\ calls < MaxCalls
    /\ \E a \in RedeemAmounts : redeem(a)
    /\ UNCHANGED trace
AddSupportedAsset ==
    /\ calls < MaxCalls
    /\ \E i \in AddInputs : add_supported_asset(i.name, i.value, i.price, i.threshold)
    /\ UNCHANGED trace
ChangeAssetThreshold ==
    /\ calls < MaxCalls
    /\ \E a \in AssetNames, t \in Thresholds : change_asset_threshold(a, t)
    /\ UNCHANGED trace
SetAssetPrice ==
    /\ calls < MaxCalls
    /\ \E a \in AssetNames, p \in Prices : set_asset_price(a, p)
    /\ UNCHANGED trace
SetAssetLiquidityValue ==
    /\ calls < MaxCalls
    /\ \E a \in AssetNames, v \in LiquidityValues : set_asset_liquidity_value(a, v)
    /\ UNCHANGED trace
Rebalance ==
    /\ calls < MaxCalls
    /\ rebalance
    /\ UNCHANGED trace
Liquidate ==
    /\ calls < MaxCalls
    /\ liquidate
    /\ UNCHANGED trace

Next ==
    \/ Mint
    \/ Redeem
    \/ AddSupportedAsset
    \/ SetAssetPrice
    \/ Rebalance
    \/ Liquidate

\* Calls made within one reading of the clock.
Spec == Init /\ [][Next]_vars

----------------------------------------------------------------------------
(* A caller that keeps to the interface: mint(amount > 0), prices > 0,     *)
(* thresholds <= 100.                                                      *)

ValidAddInputs ==
    {i \in AddInputs : DecLt(Zero, i.price) /\ ~DecLt(ThresholdLimit, i.threshold)}

ValidMint ==
    /\ calls < MaxValidCalls
    /\ \E a \in PositiveMintAmounts : mint(a)
    /\ UNCHANGED trace
ValidRedeem ==
    /\ calls < MaxValidCalls
    /\ \E a \in RedeemAmounts : redeem(a)
    /\ UNCHANGED trace
ValidAddSupportedAsset ==
    /\ calls < MaxValidCalls
    /\ \E i \in ValidAddInputs :
         add_supported_asset(i.name, i.value, i.price, i.threshold)
    /\ UNCHANGED trace
ValidSetAssetPrice ==
    /\ calls < MaxValidCalls
    /\ \E a \in AssetNames, p \in PositivePrices : set_asset_price(a, p)
    /\ UNCHANGED trace
ValidRebalance ==
    /\ calls < MaxValidCalls
    /\ rebalance
    /\ UNCHANGED trace
ValidLiquidate ==
    /\ calls < MaxValidCalls
    /\ liquidate
    /\ UNCHANGED trace

NextValid ==
    \/ ValidMint
    \/ ValidRedeem
    \/ ValidAddSupportedAsset
    \/ ValidSetAssetPrice
    \/ ValidRebalance
    \/ ValidLiquidate

SpecValid == Init /\ [][NextValid]_vars

----------------------------------------------------------------------------
(* The end-to-end scenario: the module-level thresholds 0.2 and 0.05, one  *)
(* asset X at price 1 with threshold 0.5, and calls of mint(10000),        *)
(* rebalance(), redeem(1800) and liquidate() in any order; trace names the *)
(* calls made.                                                             *)

ScenarioConfig == [opt |-> Dec(1, 5), trig |-> Dec(1, 20), window |-> Two]
ScenarioMint == Dec(10000, 1)
ScenarioRedeem == Dec(1800, 1)

InitScenario == InitWith({ScenarioConfig})

Traced(op) == calls < MaxScenarioCalls /\ trace' = Append(trace, op)

ScenarioAdd == add_supported_asset("X", One, One, Dec(1, 2)) /\ Traced("add")
ScenarioMintCall == mint(ScenarioMint) /\ Traced("mint")
ScenarioRebalance == rebalance /\ Traced("rebalance")
ScenarioRedeemCall == redeem(ScenarioRedeem) /\ Traced("redeem")
ScenarioLiquidate == liquidate /\ Traced("liquidate")

NextScenario ==
    \/ ScenarioAdd
    \/ ScenarioMintCall
    \/ ScenarioRebalance
    \/ ScenarioRedeemCall
    \/ ScenarioLiquidate

SpecScenario == InitScenario /\ [][NextScenario]_vars

----------------------------------------------------------------------------
(* Liquidation, by the protocol and by a user: a caller that keeps to the  *)
(* interface, registers up to two assets, may change their prices and      *)
(* their liquidity values, redeems the whole cash or a part of it, and     *)
(* asks for the liquidation of an amount of an asset.                      *)

MaxLiquidationCalls == 7    \* calls made in one run of SpecLiquidation

LiquidationRedeemAmounts == {Dec(2, 1), Dec(5, 1)}
LiquidateAssetAmounts == {One, Dec(4, 1)}

LiquidationAdd ==
    /\ calls < MaxLiquidationCalls
    /\ \E i \in ValidAddInputs :
         add_supported_asset(i.name, i.value, i.price, i.threshold)
    /\ UNCHANGED trace
LiquidationMint ==
    /\ calls < MaxLiquidationCalls
    /\ \E a \in PositiveMintAmounts : mint(a)
    /\ UNCHANGED trace
LiquidationRedeem ==
    /\ calls < MaxLiquidationCalls
    /\ \E a \in LiquidationRedeemAmounts : redeem(a)
    /\ UNCHANGED trace
LiquidationSetPrice ==
    /\ calls < MaxLiquidationCalls
    /\ \E a \in Keys(assets), p \in PositivePrices : set_asset_price(a, p)
    /\ UNCHANGED trace
LiquidationSetLiquidityValue ==
    /\ calls < MaxLiquidationCalls
    /\ \E a \in Keys(assets), v \in LiquidityValues : set_asset_liquidity_value(a, v)
    /\ UNCHANGED trace
LiquidationRebalance ==
    /\ calls < MaxLiquidationCalls
    /\ rebalance
    /\ UNCHANGED trace
LiquidationLiquidate ==
    /\ calls < MaxLiquidationCalls
    /\ liquidate
    /\ UNCHANGED trace
LiquidationLiquidateAsset ==
    /\ calls < MaxLiquidationCalls
    /\ \E a \in AssetNames, n \in LiquidateAssetAmounts : liquidate_asset(a, n)
    /\ UNCHANGED trace

NextLiquidation ==
    \/ LiquidationAdd
    \/ LiquidationMint
    \/ LiquidationRedeem
    \/ LiquidationSetPrice
    \/ LiquidationSetLiquidityValue
    \/ LiquidationRebalance
    \/ LiquidationLiquidate
    \/ LiquidationLiquidateAsset

SpecLiquidation == Init /\ [][NextLiquidation]_vars

----------------------------------------------------------------------------
(* Flows and price histories over time: the clock moves between calls, so  *)
(* that calls fall on the same reading or on different ones, inside the    *)
(* window or before it.  Thresholds are any value the registration         *)
(* accepts.                                                                *)

MaxFlowsCalls == 4      \* calls made in one run of SpecFlows

FlowsMintAmounts == {Dec(10, 1), Dec(10000, 1)}
FlowsRedeemAmounts == {Dec(2, 1)}
FlowsAddInputs ==
    {AddInput("X", One, One, Dec(1, 2)), AddInput("Y", Two, Two, Dec(-8000, 1))}

FlowsMint ==
    /\ calls < MaxFlowsCalls
    /\ \E a \in FlowsMintAmounts : mint(a)
    /\ UNCHANGED trace
FlowsRedeem ==
    /\ calls < MaxFlowsCalls
    /\ \E a \in FlowsRedeemAmounts : redeem(a)
    /\ UNCHANGED trace
FlowsAdd ==
    /\ calls < MaxFlowsCalls
    /\ \E i \in FlowsAddInputs :
         add_supported_asset(i.name, i.value, i.price, i.threshold)
    /\ UNCHANGED trace
FlowsSetPrice ==
    /\ calls < MaxFlowsCalls
    /\ \E a \in AssetNames, p \in PositivePrices : set_asset_price(a, p)
    /\ UNCHANGED trace
FlowsRebalance ==
    /\ calls < MaxFlowsCalls
    /\ rebalance
    /\ UNCHANGED trace
FlowsSwingPricing ==
    /\ calls < MaxFlowsCalls
    /\ \E a \in AssetNames, inflow \in BOOLEAN : swing_pricing(a, inflow)
    /\ UNCHANGED trace

NextFlows ==
    \/ FlowsMint
    \/ FlowsRedeem
    \/ FlowsAdd
    \/ FlowsSetPrice
    \/ FlowsRebalance
    \/ FlowsSwingPricing
    \/ Tick

SpecFlows == Init /\ [][NextFlows]_vars

----------------------------------------------------------------------------
(* Quotients that do not terminate: the module-level thresholds, prices 1  *)
(* and 3, and amounts that make a third of the excess cash or of the       *)
(* required cash appear, so that the context rounds.                       *)

MaxRoundingCalls == 7   \* calls made in one run of SpecRounding

RoundingPrices == {One, Dec(3, 1)}
RoundingMintAmounts == {Dec(10, 1), Dec(25, 2)}
RoundingRedeemAmounts == {Dec(5, 2)}
RoundingAddInputs ==
    {AddInput("X", One, p, Dec(1, 2)) : p \in RoundingPrices}
        \cup {AddInput("Y", Two, p, Dec(1, 2)) : p \in RoundingPrices}

InitRounding == InitWith({ScenarioConfig})

RoundingAdd ==
    /\ calls < MaxRoundingCalls
    /\ \E i \in RoundingAddInputs :
         add_supported_asset(i.name, i.value, i.price, i.threshold)
    /\ UNCHANGED trace
RoundingMint ==
    /\ calls < MaxRoundingCalls
    /\ \E a \in RoundingMintAmounts : mint(a)
    /\ UNCHANGED trace
RoundingRedeem ==
    /\ calls < MaxRoundingCalls
    /\ \E a \in RoundingRedeemAmounts : redeem(a)
    /\ UNCHANGED trace
RoundingSetPrice ==
    /\ calls < MaxRoundingCalls
    /\ \E a \in Keys(assets), p \in RoundingPrices : set_asset_price(a, p)
    /\ UNCHANGED trace
RoundingRebalance ==
    /\ calls < MaxRoundingCalls
    /\ rebalance
    /\ UNCHANGED trace
RoundingLiquidate ==
    /\ calls < MaxRoundingCalls
    /\ liquidate
    /\ UNCHANGED trace

NextRounding ==
    \/ RoundingAdd
    \/ RoundingMint
    \/ RoundingRedeem
    \/ RoundingSetPrice
    \/ RoundingRebalance
    \/ RoundingLiquidate

SpecRounding == InitRounding /\ [][NextRounding]_vars

----------------------------------------------------------------------------
(* Supply against cash: the module-level thresholds, one asset registered  *)
(* before or between the calls (the module-level code registers its assets *)
(* before the first mint), a price that rises eightfold, and redeems of    *)
(* nothing or of more than was minted.                                     *)

MaxSupplyCalls == 6     \* calls made in one run of SpecSupply

SupplyPrices == {One, Dec(8, 1)}
SupplyMintAmounts == {Dec(10, 1)}
SupplyRedeemAmounts == {Zero, Dec(12, 1)}

SupplyAdd ==
    /\ calls < MaxSupplyCalls
    /\ \E p \in SupplyPrices : add_supported_asset("X", One, p, Dec(1, 2))
    /\ UNCHANGED trace
SupplyMint ==
    /\ calls < MaxSupplyCalls
    /\ \E a \in SupplyMintAmounts : mint(a)
    /\ UNCHANGED trace
SupplyRedeem ==
    /\ calls < MaxSupplyCalls
    /\ \E a \in SupplyRedeemAmounts : redeem(a)
    /\ UNCHANGED trace
SupplySetPrice ==
    /\ calls < MaxSupplyCalls
    /\ \E a \in Keys(assets), p \in SupplyPrices : set_asset_price(a, p)
    /\ UNCHANGED trace
SupplyRebalance ==
    /\ calls < MaxSupplyCalls
    /\ rebalance
    /\ UNCHANGED trace
SupplyLiquidate ==
    /\ calls < MaxSupplyCalls
    /\ liquidate
    /\ UNCHANGED trace

NextSupply ==
    \/ SupplyAdd
    \/ SupplyMint
    \/ SupplyRedeem
    \/ SupplySetPrice
    \/ SupplyRebalance
    \/ SupplyLiquidate

SpecSupply == InitRounding /\ [][NextSupply]_vars

----------------------------------------------------------------------------
(* The registry: registration and the three setters, called with any name, *)
(* registered or not.                                                      *)

NextRegistry ==
    \/ AddSupportedAsset
    \/ ChangeAssetThreshold
    \/ SetAssetPrice
    \/ SetAssetLiquidityValue

SpecRegistry == Init /\ [][NextRegistry]_vars

----------------------------------------------------------------------------
(* Properties.                                                             *)

\* This step is a call of op.
Step(op) == calls' = calls + 1 /\ last'.op = op

Holdings(as, asset) == GetOr(as, asset, Zero)

HoldsSomething == \E i \in DOMAIN assets : DecLt(Zero, assets[i].v)

AllPricesPositive ==
    \A i \in DOMAIN assets : DecLt(Zero, GetOr(prices, assets[i].k, Zero))

\* C1: for every amount > 0, mint(amount) returns amount, cash and
\* token_supply each grow by exactly amount, and the holdings, the prices
\* and the thresholds are left as they were.
C1_MintIssuesOneForOne ==
    [][(Step("mint") /\ DecLt(Zero, last'.args.amount)) =>
          /\ last'.err = "none"
          /\ last'.ret = <<last'.args.amount>>
          /\ cash' = DecAdd(cash, last'.args.amount)
          /\ token_supply' = DecAdd(token_supply, last'.args.amount)
          /\ UNCHANGED <<assets, prices, thresholds, config>>]_vars

\* A positive mint into a vault that holds assets.
C1_Witness ==
    /\ last.op = "mint"
    /\ DecLt(Zero, last.args.amount)
    /\ last.ret = <<last.args.amount>>
    /\ HoldsSomething

\* C2: redeem(amount) with amount <= cash returns amount and takes exactly
\* amount from cash and from token_supply; with amount > cash it fails with
\* InsufficientCash and leaves cash, token_supply, the holdings and the
\* withdrawal log as they were.
C2_RedeemOrInsufficientCash ==
    [][Step("redeem") =>
          IF DecLe(last'.args.amount, cash)
          THEN /\ last'.err = "none"
               /\ last'.ret = <<last'.args.amount>>
               /\ cash' = DecSub(cash, last'.args.amount)
               /\ token_supply' = DecSub(token_supply, last'.args.amount)
          ELSE /\ last'.err = "InsufficientCash"
               /\ last'.ret = <<>>
               /\ UNCHANGED <<cash, token_supply, assets, withdrawal_requests>>]_vars

\* A redeem refused by a vault that has cash, holdings and a withdrawal on
\* its log.
C2_Witness ==
    /\ last.op = "redeem"
    /\ last.err = "InsufficientCash"
    /\ DecLt(Zero, cash)
    /\ HoldsSomething
    /\ withdrawal_requests # <<>>

\* A redeem of exactly the cash of the vault, which is more than nothing.
C2_WitnessWholeCash ==
    /\ last.op = "redeem"
    /\ last.err = "none"
    /\ DecLt(Zero, last.args.amount)
    /\ cash = Zero

\* C3: mint(amount) with amount <= 0 fails with InvalidAmount and leaves
\* cash, token_supply and the deposit log as they were.
C3_MintRejectsNonPositive ==
    [][(Step("mint") /\ DecLe(last'.args.amount, Zero)) =>
          /\ last'.err = "InvalidAmount"
          /\ UNCHANGED <<cash, token_supply, deposit_requests>>]_vars

\* C4: is_liquidable() is true exactly when the total value is positive and
\* the cash ratio is below the liquidation trigger.
C4_LiquidableIffPositiveAndBelowTrigger ==
    is_liquidable(assets, prices, cash) <=>
        (DecLt(Zero, TotalValue) /\ DecLt(CashRatio, liquidation_trigger_threshold))

\* C5: a rebalance() called with the cash ratio above the optimal threshold
\* and every registered asset priced above 0 leaves the total value as it
\* was and the cash ratio closer to the optimal threshold, whatever the set
\* of registered assets.
C5_RebalanceConservesValue ==
    [][(Step("rebalance") /\ DecLt(optimal_cash_threshold, CashRatio)
            /\ AllPricesPositive) =>
          /\ TotalValue' = TotalValue
          /\ DecLt(Distance(CashRatio', optimal_cash_threshold),
                   Distance(CashRatio, optimal_cash_threshold))]_vars

\* C6: rebalance() called with the cash ratio at or below the optimal
\* threshold changes neither cash nor token_supply nor any holdings.
C6_RebalanceNoOp ==
    [][(Step("rebalance") /\ DecLe(CashRatio, optimal_cash_threshold)) =>
          /\ last'.err = "none"
          /\ UNCHANGED <<cash, token_supply, assets>>]_vars

\* A rebalance that returned at once from a vault with cash and holdings
\* whose cash ratio is strictly between the two thresholds.
C6_Witness ==
    /\ last.op = "rebalance"
    /\ last.note = <<>>
    /\ DecLt(Zero, cash)
    /\ HoldsSomething
    /\ DecLt(CashRatio, optimal_cash_threshold)
    /\ DecLt(liquidation_trigger_threshold, CashRatio)

\* C7: for a caller that keeps to the interface, liquidate() never leaves
\* cash negative and never leaves an asset with more holdings than before.
C7_LiquidateNeverBuys ==
    [][Step("liquidate") =>
          /\ DecLe(Zero, cash')
          /\ \A a \in AssetNames :
                DecLe(Holdings(assets', a), Holdings(assets, a))]_vars

\* A liquidate that went through its loop in a vault with two assets and
\* sold part of one of them: it set out to raise cash, and cash is now the
\* desired cash.
C7_Witness ==
    /\ last.op = "liquidate"
    /\ last.err = "none"
    /\ last.note # <<>>
    /\ DecLt(Zero, last.note[1])
    /\ cash = desired_cash_for(TotalValue)
    /\ Len(assets) = 2
    /\ \A i \in DOMAIN assets : DecLt(Zero, assets[i].v)

ScenarioCalls == <<"add", "mint", "rebalance", "redeem", "liquidate">>

\* C8: with thresholds 0.2 and 0.05 and the single asset X at price 1, the
\* calls mint(10000); rebalance(); redeem(1800); liquidate() leave cash 2000
\* and 8000 X after the rebalance, cash 200 and a token supply of 8200 after
\* the redeem, and 6560 X and cash 1640 at the end.
C8_EndToEndTrace ==
    /\ trace = SubSeq(ScenarioCalls, 1, 3) =>
          cash = Dec(2000, 1) /\ Holdings(assets, "X") = Dec(8000, 1)
    /\ trace = SubSeq(ScenarioCalls, 1, 4) =>
          cash = Dec(200, 1) /\ token_supply = Dec(8200, 1)
    /\ trace = ScenarioCalls =>
          Holdings(assets, "X") = Dec(6560, 1) /\ cash = Dec(1640, 1)

\* The end of the scenario.
C8_Witness ==
    /\ trace = ScenarioCalls
    /\ last.op = "liquidate"
    /\ last.note = <<Dec(1440, 1), Sale("X", Dec(1440, 1), FALSE)>>
    /\ cash = Dec(1640, 1)

\* C9: a rebalance() that fails with InvalidPrice leaves cash and the
\* holdings of every asset as they were.
C9_FailedRebalanceChangesNothing ==
    [][(Step("rebalance") /\ last'.err = "InvalidPrice") =>
          UNCHANGED <<cash, assets>>]_vars

\* C10: add_supported_asset fails with DuplicateAsset for a registered name
\* and with InvalidThreshold for a threshold above 100, changing nothing of
\* any asset; otherwise the new asset has no holdings, the given price and a
\* price history of one observation.
C10_AddSupportedAsset ==
    [][Step("add_supported_asset") =>
          LET a == last'.args IN
          IF Has(assets, a.asset)
          THEN last'.err = "DuplicateAsset" /\ UNCHANGED registry
          ELSE IF DecLt(Dec(100, 1), a.threshold)
          THEN last'.err = "InvalidThreshold" /\ UNCHANGED registry
          ELSE /\ last'.err = "none"
               /\ Keys(assets') = Keys(assets) \cup {a.asset}
               /\ Get(assets', a.asset) = Zero
               /\ Get(prices', a.asset) = a.price
               /\ Len(Get(price_volatility', a.asset)) = 1]_vars

\* A registration refused for its threshold by a vault that holds assets.
C10_Witness ==
    /\ last.op = "add_supported_asset"
    /\ last.err = "InvalidThreshold"
    /\ HoldsSomething

\* A second registration that succeeded, at a price other than the first.
C10_WitnessSecondAsset ==
    /\ last.op = "add_supported_asset"
    /\ last.err = "none"
    /\ Len(assets) = 2
    /\ Get(prices, last.args.asset) = last.args.price
    /\ \E i \in DOMAIN prices : prices[i].v # last.args.price

\* C11: liquidate_asset(asset, amount) leaves cash, token_supply and the
\* holdings of every asset as they were, whether it fails or not; and when
\* the asset is not registered, or less than amount of it is held, or cash
\* is at least amount * price, it fails and returns no split.
C11_LiquidateAssetChangesNothing ==
    [][Step("liquidate_asset") =>
          LET a == last'.args.asset
              n == last'.args.amount
          IN  /\ UNCHANGED <<cash, token_supply, assets>>
              /\ (\/ ~Has(assets, a)
                  \/ DecLt(Holdings(assets, a), n)
                  \/ DecLe(DecMul(n, GetOr(prices, a, Zero)), cash)) =>
                    (last'.err # "none" /\ last'.ret = <<>>)]_vars

\* A liquidation asked of a vault that holds the amount and has the cash to
\* cover it: refused, with cash and holdings still there.
C11_Witness ==
    /\ last.op = "liquidate_asset"
    /\ last.err = "NoNeedToLiquidate"
    /\ DecLt(Zero, last.args.amount)
    /\ DecLe(last.args.amount, Holdings(assets, last.args.asset))
    /\ DecLt(Zero, cash)

\* A liquidation that passed every check: the vault holds the amount and its
\* cash is below the value of the amount.
C11_WitnessPastChecks ==
    /\ last.op = "liquidate_asset"
    /\ last.err = "TypeError"
    /\ DecLe(last.args.amount, Holdings(assets, last.args.asset))
    /\ DecLt(cash, DecMul(last.args.amount, GetOr(prices, last.args.asset, Zero)))

\* C12: swing_pricing(asset, inflow), asked of a registered asset at a time
\* when the window is valid and the flow is not negative (the volatility and
\* the deviation from the threshold never are), returns a fee that is at
\* least 0 and at most 1.
C12_SwingFeeInUnitInterval ==
    [][(/\ Step("swing_pricing")
        /\ ~invalid_window
        /\ Has(assets, last'.args.asset)
        /\ DecLe(Zero, IF last'.args.inflow THEN get_inflow ELSE get_outflow)
        /\ DecLe(Zero, get_price_volatility(last'.args.asset))
        /\ DecLe(Zero, get_current_asset_threshold(last'.args.asset))) =>
          /\ last'.err = "none"
          /\ Len(last'.ret) = 1
          /\ DecLe(Zero, last'.ret[1])
          /\ DecLe(last'.ret[1], One)]_vars

\* A fee that the clamp brought down to 1, and one strictly between 0 and 1.
C12_WitnessClamped ==
    /\ last.op = "swing_pricing"
    /\ last.err = "none"
    /\ last.ret = <<One>>
    /\ DecLt(Dec(100, 1), get_inflow)
C12_WitnessInside ==
    /\ last.op = "swing_pricing"
    /\ last.err = "none"
    /\ DecLt(Zero, last.ret[1])
    /\ DecLt(last.ret[1], One)
    /\ HoldsSomething

\* C13: a liquidate() called in a liquidable state whose assets are worth at
\* least desired_cash - cash, where desired_cash is optimal_cash_threshold *
\* total value at the call, ends with cash equal to desired_cash, whatever
\* the number of registered assets: it stops only at the target (or when
\* every asset is sold, which the assets' worth rules out here).
C13_LiquidateReachesDesiredCash ==
    [][(/\ Step("liquidate")
        /\ is_liquidable(assets, prices, cash)
        /\ DecLe(DecSub(desired_cash_for(TotalValue), cash),
                 get_assets_value(assets, prices))) =>
          cash' = desired_cash_for(TotalValue)]_vars

LiquidityValue(asset) == GetOr(asset_liquidity_value, asset, Zero)

\* C14: liquidate() sells in ascending order of liquidity value: whenever a
\* call leaves less of an asset A than there was, every registered asset
\* with a strictly smaller liquidity value that was held before the call is
\* held no more after it.
C14_LiquidateAscendingPriority ==
    [][Step("liquidate") =>
          \A A \in Keys(assets), B \in Keys(assets) :
              (/\ DecLt(Holdings(assets', A), Holdings(assets, A))
               /\ DecLt(LiquidityValue(B), LiquidityValue(A))
               /\ Holdings(assets, B) # Zero) =>
                 Holdings(assets', B) = Zero]_vars

\* A liquidate that sold all of one asset and then a part of another whose
\* liquidity value is strictly larger.
C14_Witness ==
    /\ last.op = "liquidate"
    /\ last.err = "none"
    /\ Len(last.note) = 3
    /\ last.note[2].all
    /\ DecLt(Zero, last.note[2].quantity)
    /\ ~last.note[3].all
    /\ DecLt(Zero, last.note[3].quantity)
    /\ DecLt(LiquidityValue(last.note[2].asset), LiquidityValue(last.note[3].asset))
    /\ Holdings(assets, last.note[2].asset) = Zero
    /\ DecLt(Zero, Holdings(assets, last.note[3].asset))

\* A call of rebalance() that goes past its early return with at least one
\* asset registered and every registered asset priced above zero.
TriggeredRebalance ==
    /\ Step("rebalance")
    /\ DecLt(optimal_cash_threshold, CashRatio)
    /\ Len(assets) >= 1
    /\ AllPricesPositive

\* excessCash = cash - optimalCashThreshold * totalValue, before the call.
ExcessCash == DecSub(cash, desired_cash_for(TotalValue))

\* Each asset gains (excessCash / n) / price and cash loses excessCash.
EqualShares ==
    /\ \A a \in Keys(assets) :
           Holdings(assets', a) =
               DecAdd(Holdings(assets, a),
                      DecDiv(DecDiv(ExcessCash, Dec(Len(assets), 1)), Get(prices, a)))
    /\ cash' = DecSub(cash, ExcessCash)

\* C15: a triggered rebalance() with n >= 1 registered assets, all
\* priced above zero, adds (excessCash / n) / price to the holdings of each
\* asset, takes excessCash from cash once, and leaves cash equal to
\* optimal_cash_threshold * total value; liquidity values play no part.
C15_RebalanceReachesOptimalCash ==
    [][TriggeredRebalance =>
          EqualShares /\ cash' = desired_cash_for(TotalValue)]_vars

\* What every triggered rebalance() does, rounding included: the equal
\* shares, and a cash that is optimal_cash_threshold * total value up to
\* the rounding errors of the context.
C15_RebalanceEqualShares ==
    [][TriggeredRebalance =>
          /\ EqualShares
          /\ Exact(cash') = Exact(desired_cash_for(TotalValue))]_vars

\* A triggered rebalance over two assets of different liquidity values and
\* the same price: both gain the same quantity, half the excess cash.
C15_Witness ==
    /\ last.op = "rebalance"
    /\ last.err = "none"
    /\ Len(last.note) = 1
    /\ DecLt(Zero, last.note[1])
    /\ Len(assets) = 2
    /\ assets[1].v = assets[2].v
    /\ DecLt(Zero, assets[1].v)
    /\ prices[1].v = prices[2].v
    /\ asset_liquidity_value[1].v # asset_liquidity_value[2].v
    /\ DecMul(Dec(2, 1), DecMul(assets[1].v, prices[1].v)) = last.note[1]

\* A triggered rebalance whose result the context rounded: cash is off the
\* target by dust.
C15_WitnessRounded ==
    /\ last.op = "rebalance"
    /\ last.err = "none"
    /\ Len(last.note) = 1
    /\ Dust(cash) # NoDust

\* The vault's books: everything but the clock and the record of calls.
books == <<config, ledger, registry>>

\* C16: liquidate() conserves total value: after any call, cash
\* plus the worth of the holdings equals its value before the call,
\* token_supply is unchanged, and a call made when the vault is not
\* liquidable changes nothing.
C16_LiquidateConservesValue ==
    [][Step("liquidate") =>
          /\ \A as \in {assets'}, c \in {cash'} :
                 get_total_value(as, prices, c) = TotalValue
          /\ token_supply' = token_supply
          /\ ~is_liquidable(assets, prices, cash) => UNCHANGED books]_vars

\* What every liquidate() does, rounding included: it takes no fee (the
\* total value after the call is the value before it up to the rounding
\* errors of the context), leaves token_supply alone, and changes nothing
\* when the vault is not liquidable.
C16_LiquidateTakesNoFee ==
    [][Step("liquidate") =>
          /\ \A as \in {assets'}, c \in {cash'} :
                 Exact(get_total_value(as, prices, c)) = Exact(TotalValue)
          /\ token_supply' = token_supply
          /\ ~is_liquidable(assets, prices, cash) => UNCHANGED books]_vars

\* A liquidate that sold a part of an asset at a price that does not divide
\* the cash required: the quantity sold carries a rounding error.
C16_Witness ==
    /\ last.op = "liquidate"
    /\ last.err = "none"
    /\ Len(last.note) >= 2
    /\ ~last.note[2].all
    /\ Dust(last.note[2].quantity) # NoDust
    /\ HoldsSomething

\* A liquidate called when the vault holds assets and is not liquidable.
C16_WitnessNotLiquidable ==
    /\ last.op = "liquidate"
    /\ last.err = "none"
    /\ last.note = <<>>
    /\ HoldsSomething

\* The sum of the amounts a request log holds.
RECURSIVE LogTotal(_, _)
LogTotal(log, i) ==
    IF i > Len(log) THEN Zero ELSE DecAdd(log[i].v, LogTotal(log, i + 1))

\* The log gains one entry, of this amount, and loses none.
GainsOneEntry(before, after, amount) ==
    /\ Len(after) = Len(before) + 1
    /\ LogTotal(after, 1) = DecAdd(LogTotal(before, 1), amount)

\* C17: every mint adds one entry to the deposit log and every successful
\* redeem one entry to the withdrawal log, and no entry is ever removed or
\* overwritten, calls made at the same reading of the clock included: each
\* log holds one entry per call, and its amounts sum to the total minted or
\* redeemed.
C17_FlowLogsKeepEveryEvent ==
    [][/\ (Step("mint") /\ last'.err = "none") =>
              /\ GainsOneEntry(deposit_requests, deposit_requests', last'.args.amount)
              /\ withdrawal_requests' = withdrawal_requests
       /\ (Step("redeem") /\ last'.err = "none") =>
              /\ GainsOneEntry(withdrawal_requests, withdrawal_requests',
                               last'.args.amount)
              /\ deposit_requests' = deposit_requests
       /\ ~((Step("mint") \/ Step("redeem")) /\ last'.err = "none") =>
              UNCHANGED <<deposit_requests, withdrawal_requests>>]_vars

\* C18: set_asset_price replaces the price history of the asset by a single
\* observation: in every reachable state the history of each registered
\* asset holds exactly one observation (never more than the deque's 1000)
\* and get_price_volatility(asset) is 0 at every reading of the clock,
\* however many times the price was set inside the window.
C18_OneObservationNoVolatility ==
    \A a \in Keys(assets) :
        /\ Has(price_volatility, a)
        /\ Len(Get(price_volatility, a)) = 1
        /\ Len(Get(price_volatility, a)) <= DequeMaxLen
        /\ get_price_volatility(a) = Zero

\* X was registered at price 1 and its price has just been set to 2, at a
\* reading inside the window of the registration.
C18_Witness ==
    /\ last.op = "set_asset_price"
    /\ last.args.asset = "X"
    /\ last.args.price = Two
    /\ Has(assets, "X")
    /\ DecLe(min_time, Zero)
    /\ Get(price_volatility, "X") = <<PriceObservation(now, Two)>>

\* The five maps of the registry have the same keys.
SameKeys ==
    /\ Keys(prices) = Keys(assets)
    /\ Keys(asset_liquidity_value) = Keys(assets)
    /\ Keys(thresholds) = Keys(assets)
    /\ Keys(price_volatility) = Keys(assets)

\* A call of one of the three setters.
SetterStep ==
    \/ Step("change_asset_threshold")
    \/ Step("set_asset_liquidity_value")
    \/ Step("set_asset_price")

\* C19: assets are registered by add_supported_asset alone: after every
\* call the holdings, the prices, the liquidity values, the thresholds and
\* the price histories have the same keys, and change_asset_threshold,
\* set_asset_liquidity_value or set_asset_price called with a name that is
\* not registered fails and changes nothing.
C19_RegistryKeysAgree ==
    [][/\ SameKeys'
       /\ (SetterStep /\ ~Has(assets, last'.args.asset)) =>
              last'.err # "none" /\ UNCHANGED books]_vars

\* C20: token_supply is never negative: redeem cannot burn more tokens
\* than are outstanding, whatever mints of positive amounts, redeems,
\* rebalances, liquidations and changes of price came before.
C20_SupplyNeverNegative == DecLe(Zero, token_supply)

====
